---- MODULE Spec2Model ----
(***************************************************************************)
(* Model of the xv6 persistent-storage core of this repository:            *)
(*   - the write-ahead log manager (src/unnamed/part_000, log.c part)      *)
(*   - the IDE block device driver (src/ide.c)                             *)
(*                                                                         *)
(* Spec    : the log manager, with whole-system crash and recovery.        *)
(* SpecIde : the device driver, its request queue and interrupt handler.   *)
(*                                                                         *)
(* log_write() takes no lock in this source (part_000:338-361), so its     *)
(* loads and stores of log.lh interleave with those of other admitted      *)
(* operations; it is modelled one memory access group per step.            *)
(***************************************************************************)
EXTENDS Integers, Sequences, FiniteSets, TLC

\* ------------------------------------------------------------------ bounds
\* Scaled-down program parameters (param.h is not part of the sources).
MAXOPBLOCKS == 1
LOGSIZE == 2
\* Bounds of the exploration.
MaxReq == 4
MaxTxn == 2
MaxCrash == 2

Procs == {1, 2}
\* Data sectors that operations modify; block 0 (boot block) is never logged
\* by an operation but is what a never-written header slot names.
Sectors == {1, 2}
Blocks == {0} \cup Sectors
\* The driver's callers and the buffers they submit.
IdeProcs == {1, 2, 3}
Bufs == {1, 2, 3}
\* log.size as read from the superblock: a region of LOGSIZE blocks (header
\* plus LOGSIZE-1 slots) or of LOGSIZE+1 blocks (header plus LOGSIZE slots).
LogSizes == {LOGSIZE, LOGSIZE + 1}

Min(a, b) == IF a < b THEN a ELSE b

VARIABLES
  \* ---- log manager, in memory (struct log)
  rpc,          \* position of initlog/recover_from_log: "read_head".."up"
  pc,           \* pc[p]: position of process p in begin_op/log_write/end_op/commit
  lock,         \* holder of log.lock, 0 when free
  outstanding,  \* log.outstanding
  committing,   \* log.committing
  lhn,          \* log.lh.n
  lhsector,     \* log.lh.sector[0..LOGSIZE-1], as a sequence 1..LOGSIZE
  size,         \* log.size
  tail,         \* loop variable of write_log / install_trans
  lwb,          \* lwb[p]: b->sector of the log_write call of p
  lwi,          \* lwi[p]: local i of the log_write call of p
  opsecs,       \* opsecs[p]: distinct sectors p's current operation has logged
  halt,         \* "" or the panic message the system halted with
  \* ---- buffer cache contents and the disk
  cache,        \* cache[s]: in-memory content of block s
  home,         \* home[s]: on-disk content of home block s
  logb,         \* logb[i]: on-disk content of log block log.start+i, i >= 1
  dhn,          \* on-disk header block: n
  dhsector,     \* on-disk header block: sector[]
  \* ---- history of the exploration
  epoch,        \* number of the current transaction (content written by it)
  crashes,      \* crashes so far
  gpre,         \* home contents when the last commit started
  gall,         \* home contents with the last commit's header fully installed
  gdur,         \* the last commit's non-empty header write reached the disk
  glogged,      \* sectors passed to log_write since the previous commit
  gcrash,       \* what the last crash interrupted: <<where, step, tail>>
  bdirty,       \* sectors whose cached buffer has B_DIRTY set
  \* ---- IDE driver (src/ide.c)
  idequeue,     \* the request queue, head first
  flags,        \* flags[b]: subset of {"BUSY","VALID","DIRTY"}
  ipc,          \* ipc[p]: position of process p in iderw
  chan,         \* chan[p]: the channel p sleeps on (a buffer), 0 when none
  issued,       \* buffer whose command the controller holds, 0 when idle
  status,       \* status register once the command is done: "ok" | "err",
                \* "none" while no completion interrupt is pending
  loaded,       \* loaded[b]: b->data holds the sector's on-disk data
  rderr,        \* buffers whose last read completed with IDE_DF or IDE_ERR
  arrived,      \* requests in the order they were appended to idequeue
  started,      \* requests in the order idestart() issued them
  served,       \* requests in the order ideintr() completed them
  havedisk1,    \* 1 when ideinit's probe found disk 1
  ihalt,        \* "" or the panic message iderw halted the system with
  intr,         \* "in" while ideintr runs on an interrupt that found the
                \* queue empty, "none" otherwise
  idelock       \* 1 while idelock is held across steps, 0 when it is free

logvars == <<rpc, pc, lock, outstanding, committing, lhn, lhsector, size, tail,
             lwb, lwi, opsecs, halt, cache, home, logb, dhn, dhsector,
             epoch, crashes, gpre, gall, gdur, glogged, gcrash, bdirty>>
idevars == <<idequeue, flags, ipc, chan, issued, status, loaded, rderr,
             arrived, started, served, havedisk1, ihalt, intr, idelock>>
vars == <<logvars, idevars>>

\* =================================================================== log

\* The header can hold min(LOGSIZE, log.size-1) sectors (part_000:343).
Capacity == Min(LOGSIZE, size - 1)

\* log.lh.n is past what sector[] and the log region hold: log_write's store
\* landed outside the array.  Nothing is modelled past this point but a reboot.
Overflowed == lhn > Capacity

Running == rpc = "up" /\ halt = "" /\ ~Overflowed

InLogWrite == {"lw_check", "lw_scan", "lw_store", "lw_cmp", "lw_inc"}
InCommit == {"commit", "write_log", "write_head", "install", "reset",
             "write_head2"}

\* The sectors named by the first n slots of a header.
HeaderSectors(n, sec) == {sec[k] : k \in 1..n}

InitLog ==
  /\ rpc = "read_head"
  /\ pc = [p \in Procs |-> "idle"]
  /\ lock = 0
  /\ outstanding = 0
  /\ committing = 0
  /\ lhn = 0
  /\ lhsector = [k \in 1..LOGSIZE |-> 0]
  /\ size \in LogSizes
  /\ tail = 0
  /\ lwb = [p \in Procs |-> 0]
  /\ lwi = [p \in Procs |-> 0]
  /\ opsecs = [p \in Procs |-> {}]
  /\ halt = ""
  /\ cache = [s \in Blocks |-> 0]
  /\ home = [s \in Blocks |-> 0]
  /\ logb = [k \in 1..LOGSIZE |-> 0]
  /\ dhn = 0
  /\ dhsector = [k \in 1..LOGSIZE |-> 0]
  /\ epoch = 1
  /\ crashes = 0
  /\ gpre = [s \in Blocks |-> 0]
  /\ gall = [s \in Blocks |-> 0]
  /\ gdur = FALSE
  /\ glogged = {}
  /\ gcrash = <<"none", "", 0>>
  /\ bdirty = {}

\* ---- the steps shared by commit() and recover_from_log()

\* read_head(): n and the first n sector numbers come from the header block.
ReadHeadN == dhn
ReadHeadSector == [k \in 1..LOGSIZE |-> IF k <= dhn THEN dhsector[k] ELSE lhsector[k]]

\* write_head(): n and the first n sector numbers go to the header block.
WriteHeadDisk ==
  /\ dhn' = lhn
  /\ dhsector' = [k \in 1..LOGSIZE |-> IF k <= lhn THEN lhsector[k] ELSE dhsector[k]]

\* An install_trans() that writes the cached destination block without
\* copying the log block into it.
InstallOneFromCache ==
  /\ home' = [home EXCEPT ![lhsector[tail + 1]] = cache[lhsector[tail + 1]]]
  /\ cache' = cache
  /\ bdirty' = bdirty \ {lhsector[tail + 1]}

\* One iteration of install_trans(): log block tail+1 goes to its home sector
\* (and is what the cache then holds for that sector).
InstallOne ==
  /\ home' = [home EXCEPT ![lhsector[tail + 1]] = logb[tail + 1]]
  /\ cache' = [cache EXCEPT ![lhsector[tail + 1]] = logb[tail + 1]]
  /\ bdirty' = bdirty \ {lhsector[tail + 1]}

\* A write_log() that copies the home sector instead of the cached block.
WriteLogOneFromHome ==
  logb' = [logb EXCEPT ![tail + 1] = home[lhsector[tail + 1]]]

\* One iteration of write_log(): the cached block goes to log block tail+1.
WriteLogOne == logb' = [logb EXCEPT ![tail + 1] = cache[lhsector[tail + 1]]]

\* ---- recover_from_log(), run by initlog() before any process

\* recover_from_log() without its install_trans() call.
RecoverNextNoInstall(step) ==
  CASE step = "read_head" -> "reset"
    [] step = "install" -> "reset"
    [] step = "reset" -> "write_head"
    [] step = "write_head" -> "up"

\* The order of recover_from_log()'s statements.
RecoverNext(step) ==
  CASE step = "read_head" -> "install"
    [] step = "install" -> "reset"
    [] step = "reset" -> "write_head"
    [] step = "write_head" -> "up"

\* Skips a loop of zero iterations.
RecoverAfter(step, n) ==
  IF RecoverNext(step) = "install" /\ n = 0
    THEN RecoverNext("install") ELSE RecoverNext(step)

RecReadHead ==
  /\ rpc = "read_head"
  /\ lhn' = ReadHeadN
  /\ lhsector' = ReadHeadSector
  /\ tail' = 0
  /\ rpc' = RecoverAfter("read_head", ReadHeadN)
  /\ UNCHANGED <<idevars, gcrash, bdirty>>
  /\ UNCHANGED <<pc, lock, outstanding, committing, size, lwb, lwi, opsecs, halt, cache, home, logb, dhn, dhsector, epoch,
                 crashes, gpre, gall, gdur, glogged>>

RecInstall ==
  /\ rpc = "install"
  /\ InstallOne
  /\ tail' = IF tail + 1 < lhn THEN tail + 1 ELSE 0
  /\ rpc' = IF tail + 1 < lhn THEN "install" ELSE RecoverNext("install")
  /\ UNCHANGED <<idevars, gcrash>>
  /\ UNCHANGED <<pc, lock, outstanding, committing, lhn, lhsector, size, lwb,
                 lwi, opsecs, halt, logb, dhn, dhsector, epoch,
                 crashes, gpre, gall, gdur, glogged>>

RecReset ==
  /\ rpc = "reset"
  /\ lhn' = 0
  /\ rpc' = RecoverNext("reset")
  /\ UNCHANGED <<idevars, gcrash, bdirty>>
  /\ UNCHANGED <<pc, lock, outstanding, committing, lhsector, size, tail, lwb,
                 lwi, opsecs, halt, cache, home, logb, dhn, dhsector,
                 epoch, crashes, gpre, gall, gdur, glogged>>

RecWriteHead ==
  /\ rpc = "write_head"
  /\ WriteHeadDisk
  /\ rpc' = RecoverNext("write_head")
  /\ UNCHANGED <<idevars, gcrash, bdirty>>
  /\ UNCHANGED <<pc, lock, outstanding, committing, lhn, lhsector, size, tail,
                 lwb, lwi, opsecs, halt, cache, home, logb, epoch,
                 crashes, gpre, gall, gdur, glogged>>

\* ---- sleep/wakeup on &log

\* A wakeup that reaches nobody.
WakeupLogLost(f) == f

\* wakeup(&log): every process sleeping in begin_op becomes runnable and will
\* re-acquire log.lock before re-testing.
WakeupLog(f) == [q \in Procs |-> IF f[q] = "sleep" THEN "begin" ELSE f[q]]

\* ---- begin_op()

\* An admission test that never makes the caller wait.
MustWaitNever == FALSE

\* An admission test that looks at the log space only.
MustWaitSpaceOnly == lhn + (outstanding + 1) * MAXOPBLOCKS > LOGSIZE

\* The admission test of begin_op (part_000:246-248): TRUE when the caller
\* has to sleep.
MustWait == committing = 1 \/ lhn + (outstanding + 1) * MAXOPBLOCKS > LOGSIZE

BeginAcquire(p) ==
  /\ Running
  /\ pc[p] \in {"idle", "begin"}
  /\ pc[p] = "idle" => epoch <= MaxTxn
  /\ lock = 0
  /\ lock' = p
  /\ pc' = [pc EXCEPT ![p] = "begin_cs"]
  /\ UNCHANGED <<idevars, gcrash, bdirty>>
  /\ UNCHANGED <<rpc, outstanding, committing, lhn, lhsector, size, tail, lwb,
                 lwi, opsecs, halt, cache, home, logb, dhn, dhsector,
                 epoch, crashes, gpre, gall, gdur, glogged>>

BeginOp(p) ==
  /\ Running
  /\ pc[p] = "begin_cs"
  /\ lock' = 0
  /\ IF MustWait
       THEN /\ pc' = [pc EXCEPT ![p] = "sleep"]
            /\ UNCHANGED <<outstanding, opsecs>>
       ELSE /\ outstanding' = outstanding + 1
            /\ pc' = [pc EXCEPT ![p] = "op"]
            /\ opsecs' = [opsecs EXCEPT ![p] = {}]
  /\ UNCHANGED <<idevars, gcrash, bdirty>>
  /\ UNCHANGED <<rpc, committing, lhn, lhsector, size, tail, lwb, lwi, halt,
                 cache, home, logb, dhn, dhsector, epoch, crashes, gpre, gall,
                 gdur, glogged>>

\* ---- log_write(b): no lock is taken; each step is one group of accesses

\* The filesystem operation modifies block s in the cache and calls
\* log_write on it.  It holds the buffer exclusively (B_BUSY) for the call,
\* logs at most MAXOPBLOCKS distinct sectors and may log a sector again.
LogWriteCall(p, s) ==
  /\ Running
  /\ pc[p] = "op"
  /\ Cardinality(opsecs[p] \cup {s}) <= MAXOPBLOCKS
  /\ \A q \in Procs : pc[q] \in InLogWrite => lwb[q] # s
  /\ cache' = [cache EXCEPT ![s] = epoch]
  /\ lwb' = [lwb EXCEPT ![p] = s]
  /\ opsecs' = [opsecs EXCEPT ![p] = @ \cup {s}]
  /\ glogged' = glogged \cup {s}
  /\ pc' = [pc EXCEPT ![p] = "lw_check"]
  /\ UNCHANGED <<idevars, gcrash, bdirty>>
  /\ UNCHANGED <<rpc, lock, outstanding, committing, lhn, lhsector, size, tail,
                 lwi, halt, home, logb, dhn, dhsector, epoch, crashes, gpre,
                 gall, gdur>>

\* A log_write that never takes itself to be outside of a transaction.
OutsideTransNever(out) == FALSE

\* part_000:345: if (log.outstanding < 1)
OutsideTrans(out) == out < 1

\* log_write called by a process that is in no operation, while no operation
\* is outstanding: its first statements (part_000:343-346) run on the state
\* of the call.
LogWriteOutside(p, s) ==
  /\ Running
  /\ pc[p] = "idle"
  /\ outstanding = 0
  /\ IF lhn >= LOGSIZE \/ lhn >= size - 1
       THEN /\ halt' = "too big a transaction"
            /\ pc' = [pc EXCEPT ![p] = "lw_panic"]
            /\ lwb' = lwb
       ELSE IF OutsideTrans(outstanding)
         THEN /\ halt' = "log_write outside of trans"
              /\ pc' = [pc EXCEPT ![p] = "lw_panic"]
              /\ lwb' = lwb
         ELSE /\ halt' = halt
              /\ pc' = [pc EXCEPT ![p] = "lw_scan"]
              /\ lwb' = [lwb EXCEPT ![p] = s]
  /\ UNCHANGED <<idevars, gcrash, bdirty>>
  /\ UNCHANGED <<rpc, lock, outstanding, committing, lhn, lhsector, size, tail,
                 lwi, opsecs, cache, home, logb, dhn, dhsector,
                 epoch, crashes, gpre, gall, gdur, glogged>>

\* part_000:343-346: the two panics.
LwCheck(p) ==
  /\ Running
  /\ pc[p] = "lw_check"
  /\ IF lhn >= LOGSIZE \/ lhn >= size - 1
       THEN halt' = "too big a transaction" /\ pc' = pc
       ELSE IF OutsideTrans(outstanding)
         THEN halt' = "log_write outside of trans" /\ pc' = pc
         ELSE halt' = halt /\ pc' = [pc EXCEPT ![p] = "lw_scan"]
  /\ UNCHANGED <<idevars, gcrash, bdirty>>
  /\ UNCHANGED <<rpc, lock, outstanding, committing, lhn, lhsector, size, tail,
                 lwb, lwi, opsecs, cache, home, logb, dhn, dhsector,
                 epoch, crashes, gpre, gall, gdur, glogged>>

\* part_000:350-353: the index of the first slot below n holding sector s,
\* n when there is none.
ScanIndex(n, sec, s) ==
  IF \E k \in 0..(n - 1) : sec[k + 1] = s
    THEN CHOOSE k \in 0..(n - 1) :
           sec[k + 1] = s /\ \A j \in 0..(k - 1) : sec[j + 1] # s
    ELSE n

LwScan(p) ==
  /\ Running
  /\ pc[p] = "lw_scan"
  /\ lwi' = [lwi EXCEPT ![p] = ScanIndex(lhn, lhsector, lwb[p])]
  /\ pc' = [pc EXCEPT ![p] = "lw_store"]
  /\ UNCHANGED <<idevars, gcrash, bdirty>>
  /\ UNCHANGED <<rpc, lock, outstanding, committing, lhn, lhsector, size, tail,
                 lwb, opsecs, halt, cache, home, logb, dhn, dhsector,
                 epoch, crashes, gpre, gall, gdur, glogged>>

\* part_000:354: log.lh.sector[i] = b->sector.  With i = LOGSIZE the store
\* lands past the array and leaves sector[] as it is.
LwStore(p) ==
  /\ Running
  /\ pc[p] = "lw_store"
  /\ lhsector' = IF lwi[p] < LOGSIZE
                   THEN [lhsector EXCEPT ![lwi[p] + 1] = lwb[p]]
                   ELSE lhsector
  /\ pc' = [pc EXCEPT ![p] = "lw_cmp"]
  /\ UNCHANGED <<idevars, gcrash, bdirty>>
  /\ UNCHANGED <<rpc, lock, outstanding, committing, lhn, size, tail, lwb, lwi,
                 opsecs, halt, cache, home, logb, dhn, dhsector,
                 epoch, crashes, gpre, gall, gdur, glogged>>

\* A log_write that does not mark the buffer.
PinNone(d, s) == d

\* part_000:360: b->flags |= B_DIRTY
Pin(d, s) == d \cup {s}

\* part_000:358: if (i == log.lh.n); when it is not, line 360 sets B_DIRTY
\* and log_write returns.
LwCmp(p) ==
  /\ Running
  /\ pc[p] = "lw_cmp"
  /\ pc' = [pc EXCEPT ![p] = IF lwi[p] = lhn THEN "lw_inc" ELSE "op"]
  /\ bdirty' = IF lwi[p] = lhn THEN bdirty ELSE Pin(bdirty, lwb[p])
  /\ UNCHANGED <<idevars, gcrash>>
  /\ UNCHANGED <<rpc, lock, outstanding, committing, lhn, lhsector, size, tail,
                 lwb, lwi, opsecs, halt, cache, home, logb, dhn,
                 dhsector, epoch, crashes, gpre, gall, gdur, glogged>>

\* part_000:359-360: log.lh.n++, then B_DIRTY is set.  The increment either re-reads n from memory or
\* stores the value it compared plus one.
IncValues(n, i) == {n + 1, i + 1}

LwInc(p) ==
  /\ Running
  /\ pc[p] = "lw_inc"
  /\ lhn' \in IncValues(lhn, lwi[p])
  /\ bdirty' = Pin(bdirty, lwb[p])
  /\ pc' = [pc EXCEPT ![p] = "op"]
  /\ UNCHANGED <<idevars, gcrash>>
  /\ UNCHANGED <<rpc, lock, outstanding, committing, lhsector, size, tail, lwb,
                 lwi, opsecs, halt, cache, home, logb, dhn, dhsector,
                 epoch, crashes, gpre, gall, gdur, glogged>>

\* ---- end_op()

EndAcquire(p) ==
  /\ Running
  /\ pc[p] = "op"
  /\ lock = 0
  /\ lock' = p
  /\ pc' = [pc EXCEPT ![p] = "end_cs"]
  /\ UNCHANGED <<idevars, gcrash, bdirty>>
  /\ UNCHANGED <<rpc, outstanding, committing, lhn, lhsector, size, tail, lwb,
                 lwi, opsecs, halt, cache, home, logb, dhn, dhsector,
                 epoch, crashes, gpre, gall, gdur, glogged>>

\* end_op committing whatever the counter is.
DoCommitAlways(left) == TRUE

\* part_000:270: this end_op commits.
DoCommit(left) == left = 0

\* An end_op that keeps log.lock while it commits.
EndOpLockHeld(p, commits) == IF commits THEN p ELSE 0

\* part_000:277: release(&log.lock) comes before the call of commit(); the
\* holder of log.lock when the locked part of end_op is over.
EndOpLock(p, commits) == 0

\* part_000:267-277, the locked part of end_op.
EndOp(p) ==
  /\ Running
  /\ pc[p] = "end_cs"
  /\ outstanding' = outstanding - 1
  /\ IF committing = 1
       THEN /\ halt' = "log.committing"
            /\ UNCHANGED <<pc, lock, committing>>
       ELSE /\ halt' = halt
            /\ lock' = EndOpLock(p, DoCommit(outstanding - 1))
            /\ IF DoCommit(outstanding - 1)
                 THEN /\ committing' = 1
                      /\ pc' = [pc EXCEPT ![p] = "commit"]
                 ELSE /\ committing' = committing
                      /\ pc' = WakeupLog([pc EXCEPT ![p] = "idle"])
  /\ UNCHANGED <<idevars, gcrash, bdirty>>
  /\ UNCHANGED <<rpc, lhn, lhsector, size, tail, lwb, lwi, opsecs,
                 cache, home, logb, dhn, dhsector, epoch, crashes, gpre, gall,
                 gdur, glogged>>

\* ---- commit(), run by the committer without log.lock

\* commit() installing to the home sectors before it writes the header.
CommitNextInstallFirst(step) ==
  CASE step = "commit" -> "write_log"
    [] step = "write_log" -> "install"
    [] step = "install" -> "write_head"
    [] step = "write_head" -> "reset"
    [] step = "reset" -> "write_head2"
    [] step = "write_head2" -> "fin"

\* commit() writing the header before it writes the log blocks.
CommitNextHeadFirst(step) ==
  CASE step = "commit" -> "write_head"
    [] step = "write_head" -> "write_log"
    [] step = "write_log" -> "install"
    [] step = "install" -> "reset"
    [] step = "reset" -> "write_head2"
    [] step = "write_head2" -> "fin"

\* The order of commit()'s statements (part_000:314-325).
CommitNext(step) ==
  CASE step = "commit" -> "write_log"
    [] step = "write_log" -> "write_head"
    [] step = "write_head" -> "install"
    [] step = "install" -> "reset"
    [] step = "reset" -> "write_head2"
    [] step = "write_head2" -> "fin"

\* A commit() that runs its steps whatever the header count.
HasWorkAlways(n) == TRUE

\* part_000:312: if (log.lh.n > 0)
HasWork(n) == n > 0

Commit(p) ==
  /\ Running
  /\ pc[p] = "commit"
  /\ IF HasWork(lhn)
       THEN /\ pc' = [pc EXCEPT ![p] = CommitNext("commit")]
            /\ gpre' = home
            /\ gall' = [s \in Blocks |->
                          IF s \in HeaderSectors(lhn, lhsector)
                            THEN cache[s] ELSE home[s]]
            /\ gdur' = FALSE
       ELSE /\ pc' = [pc EXCEPT ![p] = "fin"]
            /\ UNCHANGED <<gpre, gall, gdur>>
  /\ tail' = 0
  /\ UNCHANGED <<idevars, gcrash, bdirty>>
  /\ UNCHANGED <<rpc, lock, outstanding, committing, lhn, lhsector, size, lwb,
                 lwi, opsecs, halt, cache, home, logb, dhn, dhsector,
                 epoch, crashes, glogged>>

\* The loop of write_log() or install_trans() at `step`: stay for the next
\* iteration, or go on to the statement after the loop.
LoopNext(step) == IF tail + 1 < lhn THEN step ELSE CommitNext(step)

WriteLog(p) ==
  /\ Running
  /\ pc[p] = "write_log"
  /\ WriteLogOne
  /\ tail' = IF tail + 1 < lhn THEN tail + 1 ELSE 0
  /\ pc' = [pc EXCEPT ![p] = LoopNext("write_log")]
  /\ UNCHANGED <<idevars, gcrash, bdirty>>
  /\ UNCHANGED <<rpc, lock, outstanding, committing, lhn, lhsector, size, lwb,
                 lwi, opsecs, halt, cache, home, dhn, dhsector, epoch,
                 crashes, gpre, gall, gdur, glogged>>

WriteHead(p) ==
  /\ Running
  /\ pc[p] \in {"write_head", "write_head2"}
  /\ WriteHeadDisk
  /\ gdur' = (gdur \/ lhn > 0)
  /\ pc' = [pc EXCEPT ![p] = CommitNext(pc[p])]
  /\ UNCHANGED <<idevars, gcrash, bdirty>>
  /\ UNCHANGED <<rpc, lock, outstanding, committing, lhn, lhsector, size, tail,
                 lwb, lwi, opsecs, halt, cache, home, logb, epoch,
                 crashes, gpre, gall, glogged>>

InstallTrans(p) ==
  /\ Running
  /\ pc[p] = "install"
  /\ IF lhn > 0
       THEN /\ InstallOne
            /\ tail' = IF tail + 1 < lhn THEN tail + 1 ELSE 0
            /\ pc' = [pc EXCEPT ![p] = LoopNext("install")]
       ELSE /\ UNCHANGED <<home, cache, tail, bdirty>>
            /\ pc' = [pc EXCEPT ![p] = CommitNext("install")]
  /\ UNCHANGED <<idevars, gcrash>>
  /\ UNCHANGED <<rpc, lock, outstanding, committing, lhn, lhsector, size, lwb,
                 lwi, opsecs, halt, logb, dhn, dhsector, epoch,
                 crashes, gpre, gall, gdur, glogged>>

\* part_000:323: log.lh.n = 0
ResetHeader(p) ==
  /\ Running
  /\ pc[p] = "reset"
  /\ lhn' = 0
  /\ pc' = [pc EXCEPT ![p] = CommitNext("reset")]
  /\ UNCHANGED <<idevars, gcrash, bdirty>>
  /\ UNCHANGED <<rpc, lock, outstanding, committing, lhsector, size, tail, lwb,
                 lwi, opsecs, halt, cache, home, logb, dhn, dhsector,
                 epoch, crashes, gpre, gall, gdur, glogged>>

\* part_000:283: the committer takes log.lock again after commit() returned.
FinAcquire(p) ==
  /\ Running
  /\ pc[p] = "fin"
  /\ lock = 0
  /\ lock' = p
  /\ pc' = [pc EXCEPT ![p] = "fin_cs"]
  /\ UNCHANGED <<idevars, gcrash, bdirty>>
  /\ UNCHANGED <<rpc, outstanding, committing, lhn, lhsector, size, tail, lwb,
                 lwi, opsecs, halt, cache, home, logb, dhn, dhsector,
                 epoch, crashes, gpre, gall, gdur, glogged>>

\* part_000:284-286; e is the number the next transaction gets.
FinStamp(p, e) ==
  /\ Running
  /\ pc[p] = "fin_cs"
  /\ committing' = 0
  /\ lock' = 0
  /\ pc' = WakeupLog([pc EXCEPT ![p] = "idle"])
  /\ epoch' = e
  /\ glogged' = {}
  /\ UNCHANGED <<idevars, gcrash, bdirty>>
  /\ UNCHANGED <<rpc, outstanding, lhn, lhsector, size, tail, lwb, lwi,
                 opsecs, halt, cache, home, logb, dhn, dhsector,
                 crashes, gpre, gall, gdur>>

Fin(p) == FinStamp(p, epoch + 1)

\* The same step where transactions are not numbered, so that operations
\* can follow each other without end.
FinLive(p) == FinStamp(p, epoch)

\* Where a crash interrupts the system: inside commit(), inside
\* recover_from_log(), or elsewhere; with the step and the loop position.
CrashPoint ==
  IF \E p \in Procs : pc[p] \in InCommit
    THEN <<"commit", pc[CHOOSE p \in Procs : pc[p] \in InCommit], tail>>
    ELSE IF rpc # "up" THEN <<"recover", rpc, tail>> ELSE <<"none", "", 0>>

\* ---- whole-system crash and restart: memory is lost, the disk stays, and
\* main() runs initlog() again.
Crash ==
  /\ crashes < MaxCrash
  /\ crashes' = crashes + 1
  /\ epoch' = epoch + 1
  /\ rpc' = "read_head"
  /\ pc' = [p \in Procs |-> "idle"]
  /\ lock' = 0
  /\ outstanding' = 0
  /\ committing' = 0
  /\ lhn' = 0
  /\ lhsector' = [k \in 1..LOGSIZE |-> 0]
  /\ tail' = 0
  /\ lwb' = [p \in Procs |-> 0]
  /\ lwi' = [p \in Procs |-> 0]
  /\ opsecs' = [p \in Procs |-> {}]
  /\ halt' = ""
  /\ cache' = home
  /\ glogged' = {}
  /\ gcrash' = CrashPoint
  /\ bdirty' = {}
  /\ UNCHANGED idevars
  /\ UNCHANGED <<size, home, logb, dhn, dhsector, gpre, gall, gdur>>

NextLog ==
  \/ RecReadHead
  \/ RecInstall
  \/ RecReset
  \/ RecWriteHead
  \/ \E p \in Procs : BeginAcquire(p)
  \/ \E p \in Procs : BeginOp(p)
  \/ \E p \in Procs : \E s \in Sectors : LogWriteCall(p, s)
  \/ \E p \in Procs : \E s \in Sectors : LogWriteOutside(p, s)
  \/ \E p \in Procs : LwCheck(p)
  \/ \E p \in Procs : LwScan(p)
  \/ \E p \in Procs : LwStore(p)
  \/ \E p \in Procs : LwCmp(p)
  \/ \E p \in Procs : LwInc(p)
  \/ \E p \in Procs : EndAcquire(p)
  \/ \E p \in Procs : EndOp(p)
  \/ \E p \in Procs : Commit(p)
  \/ \E p \in Procs : WriteLog(p)
  \/ \E p \in Procs : WriteHead(p)
  \/ \E p \in Procs : InstallTrans(p)
  \/ \E p \in Procs : ResetHeader(p)
  \/ \E p \in Procs : FinAcquire(p)
  \/ \E p \in Procs : Fin(p)
  \/ Crash

\* =================================================================== ide

InitIde ==
  /\ idequeue = <<>>
  /\ flags = [b \in Bufs |-> {}]
  /\ ipc = [p \in IdeProcs |-> "idle"]
  /\ chan = [p \in IdeProcs |-> 0]
  /\ issued = 0
  /\ status = "none"
  /\ loaded = [b \in Bufs |-> FALSE]
  /\ rderr = {}
  /\ arrived = <<>>
  /\ started = <<>>
  /\ served = <<>>
  /\ havedisk1 = 0
  /\ ihalt = ""
  /\ intr = "none"
  /\ idelock = 0

\* ideinit()'s probe (ide.c:69-76) finds disk 1; it runs before the first
\* request.  When it does not fire, the probe found nothing.
IdeInit ==
  /\ ihalt = ""
  /\ havedisk1 = 0
  /\ arrived = <<>>
  /\ havedisk1' = 1
  /\ UNCHANGED <<idequeue, flags, ipc, chan, issued, status, loaded, rderr,
                 arrived, started, served, ihalt, intr, idelock>>
  /\ UNCHANGED logvars

\* b->dev of the buffers: buffer 3 caches a block of disk 1.
DevOf(b) == IF b = 3 THEN 1 ELSE 0

\* A wait predicate that holds at once.
DoneAlways(f) == TRUE

\* iderw's wait predicate (ide.c:184): the request is finished.
Done(f) == "VALID" \in f /\ "DIRTY" \notin f

\* A request pushed at the head of the queue.
EnqueueFront(q, b) == <<b>> \o q

\* Append b to idequeue (ide.c:174-177).
Enqueue(q, b) == Append(q, b)

\* iderw starting the disk for every request.
StartsDiskAlways(q, b) == TRUE

\* iderw starts the disk itself only when its request is the head
\* (ide.c:180).
StartsDisk(q, b) == Head(q) = b

\* An iderw that takes every drive to be present.
DriveAbsentNever(b) == FALSE

\* ide.c:168: if(b->dev != 0 && !havedisk1)
DriveAbsent(b) == DevOf(b) # 0 /\ havedisk1 = 0

\* iderw(b) up to its first sleep, all under idelock.  The caller got the
\* buffer from the cache, which marked it B_BUSY: a read is a buffer that is
\* not B_VALID, a write one that bwrite marked B_DIRTY.
IdeRw(p, b, dir) ==
  /\ ihalt = ""
  /\ idelock = 0
  /\ ipc[p] = "idle"
  /\ "BUSY" \notin flags[b]
  /\ Len(arrived) < MaxReq
  /\ dir = "write" => "VALID" \in flags[b]
  /\ IF DriveAbsent(b)
       THEN /\ ihalt' = "iderw: ide disk 1 not present"
            /\ UNCHANGED <<flags, loaded, rderr, idequeue, arrived, issued,
                           started, ipc, chan>>
       ELSE LET f == IF dir = "read" THEN {"BUSY"}
                     ELSE {"BUSY", "VALID", "DIRTY"}
                q == Enqueue(idequeue, b)
            IN /\ flags' = [flags EXCEPT ![b] = f]
               /\ loaded' = [loaded EXCEPT ![b] = (dir = "write")]
               /\ rderr' = rderr \ {b}
               /\ idequeue' = q
               /\ arrived' = Append(arrived, b)
               /\ IF StartsDisk(q, b)
                    THEN issued' = b /\ started' = Append(started, b)
                    ELSE UNCHANGED <<issued, started>>
               /\ ipc' = [ipc EXCEPT ![p] = IF Done(f) THEN "idle" ELSE "sleep"]
               /\ chan' = [chan EXCEPT ![p] = IF Done(f) THEN 0 ELSE b]
               /\ ihalt' = ihalt
  /\ UNCHANGED <<status, served, havedisk1, intr, idelock>>
  /\ UNCHANGED logvars

\* The controller finishes the command it holds and raises IRQ_IDE; the
\* status register then shows whether the command failed.
HwComplete(st) ==
  /\ ihalt = ""
  /\ issued # 0
  /\ status = "none"
  /\ status' = st
  /\ UNCHANGED <<idequeue, flags, ipc, chan, issued, loaded, rderr, arrived,
                 started, served, havedisk1, ihalt, intr, idelock>>
  /\ UNCHANGED logvars

\* ide.c:140: the data is read when the request is a read and idewait(1)
\* reports neither IDE_DF nor IDE_ERR.
ReadsData(f, st) == "DIRTY" \notin f /\ st = "ok"

\* ide.c:144-145: the flags ideintr leaves on the buffer.
IntrFlags(f, st) == (f \cup {"VALID"}) \ {"DIRTY"}

\* A wakeup of every sleeping process, whatever its channel.
SleepersAny(b) == {p \in IdeProcs : ipc[p] = "sleep"}

\* wakeup(b) (ide.c:146): the processes sleeping on channel b.
Sleepers(b) == {p \in IdeProcs : ipc[p] = "sleep" /\ chan[p] = b}

\* An ideintr that leaves the next request to somebody else.
NextIssuedNone(q) == 0

\* The buffer ideintr starts next (ide.c:149-150), 0 when the queue is empty.
NextIssued(q) == IF q = <<>> THEN 0 ELSE Head(q)

\* ideintr() on the completion interrupt of the issued command.
IdeIntr ==
  /\ ihalt = ""
  /\ idelock = 0
  /\ status # "none"
  /\ idequeue # <<>>
  /\ LET b == Head(idequeue)
         q == Tail(idequeue)
     IN /\ idequeue' = q
        /\ loaded' = [loaded EXCEPT ![b] = @ \/ ReadsData(flags[b], status)]
        /\ rderr' = IF "DIRTY" \notin flags[b] /\ status = "err"
                      THEN rderr \cup {b} ELSE rderr
        /\ flags' = [flags EXCEPT ![b] = IntrFlags(@, status)]
        /\ ipc' = [p \in IdeProcs |-> IF p \in Sleepers(b) THEN "run" ELSE ipc[p]]
        /\ served' = Append(served, b)
        /\ issued' = NextIssued(q)
        /\ started' = IF NextIssued(q) # 0
                        THEN Append(started, NextIssued(q)) ELSE started
        /\ status' = "none"
  /\ UNCHANGED <<chan, arrived, havedisk1, ihalt, intr, idelock>>
  /\ UNCHANGED logvars

\* An interrupt arrives while the queue is empty: ideintr() takes idelock
\* (ide.c:130).
IdeIntrEnter ==
  /\ ihalt = ""
  /\ idelock = 0
  /\ intr = "none"
  /\ idequeue = <<>>
  /\ intr' = "in"
  /\ idelock' = 1
  /\ UNCHANGED <<idequeue, flags, ipc, chan, issued, status, loaded, rderr,
                 arrived, started, served, havedisk1, ihalt>>
  /\ UNCHANGED logvars

\* An ideintr that returns from the empty-queue path with idelock held.
SpuriousLockKept(l) == l

\* ide.c:133: release(&idelock) on the empty-queue path.
SpuriousRelease(l) == 0

\* ideintr() with an empty queue (ide.c:132-136): a spurious interrupt.
IdeIntrSpurious ==
  /\ ihalt = ""
  /\ intr = "in"
  /\ idequeue = <<>>
  /\ intr' = "none"
  /\ idelock' = SpuriousRelease(idelock)
  /\ UNCHANGED <<idequeue, flags, ipc, chan, issued, status, loaded, rderr,
                 arrived, started, served, havedisk1, ihalt>>
  /\ UNCHANGED logvars

\* A woken caller holds idelock again and re-tests the loop condition
\* (ide.c:184-188); when it returns, its caller releases the buffer.
IdeRwWake(p) ==
  /\ ihalt = ""
  /\ idelock = 0
  /\ ipc[p] = "run"
  /\ IF Done(flags[chan[p]])
       THEN /\ ipc' = [ipc EXCEPT ![p] = "idle"]
            /\ chan' = [chan EXCEPT ![p] = 0]
            /\ flags' = [flags EXCEPT ![chan[p]] = @ \ {"BUSY"}]
       ELSE /\ ipc' = [ipc EXCEPT ![p] = "sleep"]
            /\ UNCHANGED <<chan, flags>>
  /\ UNCHANGED <<idequeue, issued, status, loaded, rderr, arrived, started,
                 served, havedisk1, ihalt, intr, idelock>>
  /\ UNCHANGED logvars

NextIde ==
  \/ IdeInit
  \/ \E p \in IdeProcs : \E b \in Bufs : \E d \in {"read", "write"} : IdeRw(p, b, d)
  \/ \E st \in {"ok", "err"} : HwComplete(st)
  \/ IdeIntr
  \/ IdeIntrEnter
  \/ IdeIntrSpurious
  \/ \E p \in IdeProcs : IdeRwWake(p)

Init == InitLog /\ InitIde

Next == NextLog

Spec == Init /\ [][Next]_vars

SpecIde == Init /\ [][NextIde]_vars

\* ---- the driver under fair scheduling: the controller completes every
\* command it was given and raises IRQ_IDE, the interrupt is served, a woken
\* process runs.
FairIde ==
  /\ WF_vars(\E st \in {"ok", "err"} : HwComplete(st))
  /\ WF_vars(IdeIntr)
  /\ WF_vars(IdeIntrSpurious)
  /\ \A p \in IdeProcs : SF_vars(IdeRwWake(p))

SpecIdeLive == Init /\ [][NextIde]_vars /\ FairIde

\* ---- the log manager under fair scheduling, without crashes: a boot with
\* an empty log, then operations without end.
NextLive ==
  \/ RecReadHead
  \/ RecReset
  \/ RecWriteHead
  \/ \E p \in Procs : BeginAcquire(p)
  \/ \E p \in Procs : BeginOp(p)
  \/ \E p \in Procs : \E s \in Sectors : LogWriteCall(p, s)
  \/ \E p \in Procs : LwCheck(p)
  \/ \E p \in Procs : LwScan(p)
  \/ \E p \in Procs : LwStore(p)
  \/ \E p \in Procs : LwCmp(p)
  \/ \E p \in Procs : LwInc(p)
  \/ \E p \in Procs : EndAcquire(p)
  \/ \E p \in Procs : EndOp(p)
  \/ \E p \in Procs : Commit(p)
  \/ \E p \in Procs : WriteLog(p)
  \/ \E p \in Procs : WriteHead(p)
  \/ \E p \in Procs : InstallTrans(p)
  \/ \E p \in Procs : ResetHeader(p)
  \/ \E p \in Procs : FinAcquire(p)
  \/ \E p \in Procs : FinLive(p)

\* The steps a process takes once it is inside begin_op, log_write, end_op
\* or commit: a runnable process is scheduled, a spinning one gets the lock,
\* a disk write completes.  Starting an operation and calling log_write are
\* the process's own choice.
Progress(p) ==
  \/ BeginAcquire(p) /\ pc[p] = "begin"
  \/ BeginOp(p)
  \/ LwCheck(p) \/ LwScan(p) \/ LwStore(p) \/ LwCmp(p) \/ LwInc(p)
  \/ EndOp(p)
  \/ Commit(p) \/ WriteLog(p) \/ WriteHead(p) \/ InstallTrans(p)
  \/ ResetHeader(p)
  \/ FinAcquire(p) \/ FinLive(p)

\* Fair scheduling, and every admitted operation eventually calls end_op.
FairLive ==
  /\ WF_vars(RecReadHead \/ RecReset \/ RecWriteHead)
  /\ \A p \in Procs : SF_vars(Progress(p)) /\ SF_vars(EndAcquire(p))

SpecLive == Init /\ [][NextLive]_vars /\ FairLive

\* ================================================================ claims

IsPrefix(s, t) == Len(s) <= Len(t) /\ SubSeq(t, 1, Len(s)) = s
Committers == {p \in Procs : pc[p] \in InCommit \cup {"fin", "fin_cs"}}

C2_OneCommitter ==
  /\ [](/\ Cardinality(Committers) <= 1
        /\ committing = Cardinality(Committers)
        /\ (\E p \in Procs : pc[p] \in InCommit) => outstanding = 0)
  /\ [][(outstanding > 0 /\ outstanding' = 0 /\ rpc' = "up" /\ halt' = "")
          => /\ committing' = 1
             /\ Cardinality({p \in Procs : pc[p] # "commit" /\ pc'[p] = "commit"}) = 1]_vars
  /\ [][\A p \in Procs : (pc[p] # "commit" /\ pc'[p] = "commit")
          => outstanding' = 0]_vars

\* Two operations logged a sector each and ended; one of them is the
\* committer, the other has returned from end_op.
C2_Witness ==
  \E p, q \in Procs :
    /\ p # q
    /\ pc[p] = "commit"
    /\ pc[q] = "idle"
    /\ opsecs[p] # {} /\ opsecs[q] # {}
    /\ lhn = 2

\* C3: admission backpressure keeps the header within its capacity: in every
\* reachable state lh.n exceeds neither LOGSIZE nor the log region size
\* minus one (stated for a log region that has room for LOGSIZE slots).
C3_HeaderWithinCapacity ==
  size > LOGSIZE => (lhn <= LOGSIZE /\ lhn <= size - 1)

\* C4: log absorption: the header slots sector[0..n-1] never hold the same
\* sector number twice.
C4_NoDuplicateSlots ==
  \A j, k \in 1..Min(lhn, LOGSIZE) : j # k => lhsector[j] # lhsector[k]

\* C5: no admitted operation that logs at most MAXOPBLOCKS distinct sectors
\* halts in log_write with "too big a transaction" (stated for a log region
\* that has room for LOGSIZE slots).
C5_NoTooBigPanic ==
  size > LOGSIZE
    => ~(halt = "too big a transaction" /\ \E p \in Procs : pc[p] = "lw_check")

\* C6: a read whose completion reported IDE_DF or IDE_ERR transfers no data
\* and leaves the block not valid.
C6_ReadErrorLeavesInvalid ==
  \A b \in rderr : ~loaded[b] /\ "VALID" \notin flags[b]

\* C7: FIFO service: the requests are issued and completed in the order in
\* which they were appended; the completed ones followed by the queued ones
\* are the appended ones.
C7_Fifo ==
  /\ arrived = served \o idequeue
  /\ IsPrefix(served, started)
  /\ IsPrefix(started, arrived)

\* Two different requests were completed while two more are queued.
C7_Witness ==
  /\ Len(served) >= 2
  /\ served[1] # served[2]
  /\ Len(idequeue) >= 2

\* C8: single in-flight request: the requests issued and not yet completed
\* are one when the queue is non-empty and none when it is empty, the one in
\* flight is the head; iderw issues a command exactly when its request
\* became the head and otherwise leaves the controller alone.
C8_SingleInFlight ==
  /\ [](/\ Len(started) - Len(served) = IF idequeue = <<>> THEN 0 ELSE 1
        /\ issued = IF idequeue = <<>> THEN 0 ELSE Head(idequeue))
  /\ [][(idequeue # <<>> /\ Len(idequeue') = Len(idequeue) + 1)
          => (issued' = issued /\ started' = started /\ status' = status)]_vars
  /\ [][(idequeue = <<>> /\ idequeue' # <<>>)
          => (issued' = Head(idequeue') /\ started' = Append(started, issued'))]_vars

\* A request is in flight with another one queued behind it, after an
\* earlier completion.
C8_Witness ==
  /\ Len(idequeue) >= 2
  /\ issued = Head(idequeue)
  /\ status = "none"
  /\ Len(served) >= 1

\* C9: targeted wakeup: a process leaves its sleep only in the interrupt
\* that dequeues the block it sleeps on, and returns from iderw only when
\* its own block is off the queue.
C9_TargetedWakeup ==
  /\ [][\A p \in IdeProcs : (ipc[p] = "sleep" /\ ipc'[p] # "sleep")
          => /\ idequeue # <<>>
             /\ chan[p] = Head(idequeue)
             /\ idequeue' = Tail(idequeue)]_vars
  /\ [][\A p \in IdeProcs : (ipc[p] = "run" /\ ipc'[p] = "idle")
          => \A k \in 1..Len(idequeue) : idequeue[k] # chan[p]]_vars

\* An interrupt woke one process while another still sleeps on a queued
\* block.
C9_Witness ==
  \E p, q \in IdeProcs :
    /\ ipc[p] = "run"
    /\ ipc[q] = "sleep"
    /\ chan[q] # chan[p]
    /\ \E k \in 1..Len(idequeue) : idequeue[k] = chan[q]

\* C10: recovery redo: when recover_from_log has run install_trans, every
\* log slot named by the on-disk header is at its home sector; recovery ends
\* with count 0 in memory and on disk; and with an on-disk count of 0 it
\* writes no home sector.
C10_RecoveryRedo ==
  /\ [](rpc = "reset" => /\ lhn = dhn
                         /\ \A k \in 1..lhn : home[lhsector[k]] = logb[k])
  /\ [][(rpc = "write_head" /\ rpc' = "up") => (lhn' = 0 /\ dhn' = 0)]_vars
  /\ [][(rpc # "up" /\ dhn = 0) => home' = home]_vars

\* The crash came right after commit's header write with count 2 and stale
\* home sectors; recovery has installed both blocks.
C10_Witness ==
  /\ rpc = "reset"
  /\ gcrash = <<"commit", "install", 0>>
  /\ lhn = 2
  /\ lhsector[1] # lhsector[2]
  /\ home = gall
  /\ home # gpre

\* C11: commit postcondition.  When commit() has returned to end_op (no crash
\* since the operations began), every sector passed to log_write in the
\* transaction has at its home location the content the block had in the
\* transaction, and the header count is 0 in memory and on disk.
C11_CommitPostcondition ==
  (\E p \in Procs : pc[p] = "fin")
    => /\ \A s \in glogged : home[s] = cache[s]
       /\ lhn = 0
       /\ dhn = 0

\* C12: log_write outside an operation halts.  A log_write called by a
\* process in no operation while outstanding = 0 panics: it does not go on
\* into log_write's body, and the header count, the header slots and the
\* B_DIRTY flags are as before the call.
C12_OutsideHalts ==
  /\ [][\A p \in Procs :
          (pc[p] = "idle" /\ pc'[p] \in InLogWrite \cup {"lw_panic"}
             /\ outstanding = 0)
            => /\ halt' # ""
               /\ pc'[p] = "lw_panic"
               /\ lhn' = lhn
               /\ lhsector' = lhsector
               /\ bdirty' = bdirty]_vars
  /\ []((\E p \in Procs : pc[p] = "lw_panic") => halt # "")

\* log_write was called outside an operation while a commit with a
\* one-sector header was running, and the system halted.
C12_Witness ==
  /\ halt = "log_write outside of trans"
  /\ \E p \in Procs : pc[p] = "lw_panic"
  /\ committing = 1
  /\ lhn = 1

\* C13: an absent drive is fatal.  The step in which iderw halts the system
\* leaves idequeue and the controller as they were; the halt happens only
\* when the probe did not find disk 1; and when it did not, no request for a
\* block of a non-zero device was ever appended or issued.
C13_AbsentDriveFatal ==
  /\ [][(ihalt = "" /\ ihalt' # "")
          => /\ havedisk1 = 0
             /\ idequeue' = idequeue
             /\ arrived' = arrived
             /\ issued' = issued
             /\ started' = started
             /\ status' = status]_vars
  /\ [](havedisk1 = 0
          => /\ \A k \in 1..Len(arrived) : DevOf(arrived[k]) = 0
             /\ \A k \in 1..Len(started) : DevOf(started[k]) = 0)

\* iderw halted on a block of the absent disk 1 while requests for disk 0
\* were queued and in flight, after an earlier completion.
C13_Witness ==
  /\ ihalt = "iderw: ide disk 1 not present"
  /\ havedisk1 = 0
  /\ Len(idequeue) >= 2
  /\ issued = Head(idequeue)
  /\ Len(served) >= 1

C15_LogRegionConsistent ==
  dhn > 0 => \A k \in 1..dhn : logb[k] = gall[dhsector[k]]

\* A two-sector header is on disk, the home sectors are still stale, and a
\* crash has discarded the cached blocks.
C15_Witness ==
  /\ dhn = 2
  /\ dhsector[1] # dhsector[2]
  /\ gcrash = <<"commit", "install", 0>>
  /\ rpc = "install"
  /\ home = gpre
  /\ \A k \in 1..2 : logb[k] # home[dhsector[k]]

\* C16: no admission during commit.  committing = 1 implies
\* outstanding = 0; a begin_op caller that tests with committing set goes to
\* sleep without raising outstanding, and nobody is admitted while the flag
\* is set; no log_write is in progress while commit() runs, and the only
\* change of the header while committing is set is commit's own n = 0.
C16_NoAdmissionDuringCommit ==
  /\ [](committing = 1 => outstanding = 0)
  /\ []((\E p \in Procs : pc[p] \in InCommit)
          => \A q \in Procs : pc[q] \notin InLogWrite)
  /\ [][\A p \in Procs :
          (pc[p] = "begin_cs" /\ committing = 1 /\ pc'[p] # "begin_cs"
             /\ crashes' = crashes)
            => (pc'[p] = "sleep" /\ outstanding' = outstanding)]_vars
  /\ [][(outstanding' > outstanding \/ \E p \in Procs : pc[p] # "op" /\ pc'[p] = "op")
          => (committing = 0 /\ committing' = 0)]_vars
  /\ [][(committing = 1 /\ crashes' = crashes
           /\ (lhn' # lhn \/ lhsector' # lhsector))
          => /\ \E p \in Procs : pc[p] = "reset"
             /\ lhn' = 0
             /\ lhsector' = lhsector]_vars

\* A begin_op caller holds log.lock and is about to test while commit() is
\* in write_log with room left in the log.
C16_Witness ==
  \E p, q \in Procs :
    /\ pc[p] = "begin_cs"
    /\ pc[q] = "write_log"
    /\ committing = 1
    /\ lhn + MAXOPBLOCKS <= LOGSIZE

\* The home sectors as one uninterrupted install_trans would leave them,
\* computed from the disk alone: each sector named by the on-disk header
\* holds the log block of its last slot.
InstalledFromDisk ==
  [s \in Blocks |->
     IF \E k \in 1..dhn : dhsector[k] = s
       THEN logb[CHOOSE k \in 1..dhn :
                   dhsector[k] = s /\ \A j \in (k + 1)..dhn : dhsector[j] # s]
       ELSE home[s]]

\* C17: install is idempotent across crashes.  While a non-empty header is
\* on disk, no step (a home write of install_trans in commit or in recovery,
\* a crash, a restart of recovery) changes what one uninterrupted install
\* would produce; the step that empties the on-disk header finds exactly
\* that on the home sectors; and the system is up outside a commit only
\* with on-disk count 0.
C17_InstallIdempotent ==
  /\ [][(dhn > 0 /\ dhn' > 0) => InstalledFromDisk' = InstalledFromDisk]_vars
  /\ [][(dhn > 0 /\ dhn' = 0) => (home = InstalledFromDisk /\ home' = home)]_vars
  /\ []((rpc = "up" /\ \A p \in Procs : pc[p] \notin InCommit) => dhn = 0)

\* Two crashes: one during commit after the header write, one in recovery's
\* install_trans after the first of two home writes; the second recovery
\* has completed and both sectors carry the transaction.
C17_Witness ==
  /\ crashes = 2
  /\ gcrash = <<"recover", "install", 1>>
  /\ rpc = "up"
  /\ dhn = 0
  /\ home = gall
  /\ \A s \in Sectors : gall[s] # gpre[s]

\* C18: every logged sector reaches the commit.  When commit() starts, the
\* sectors in header slots [0, n) are exactly the sectors passed to log_write
\* since the previous commit.
C18_LoggedReachCommit ==
  (\E p \in Procs : pc[p] = "commit")
    => HeaderSectors(Min(lhn, LOGSIZE), lhsector) = glogged

\* How often buffer b occurs in a request history.
Occurrences(h, b) == Cardinality({k \in 1..Len(h) : h[k] = b})

\* C19: iderw returns only on completion.  A caller returns only when its
\* block is valid and not dirty, is off idequeue and the interrupt handler
\* has completed every request made for it; the caller of every queued
\* request has not returned (it sleeps on that block); and a woken caller
\* that finds the predicate false sleeps again.
C19_ReturnsOnCompletion ==
  /\ [][\A p \in IdeProcs :
          (ipc[p] # "idle" /\ ipc'[p] = "idle")
            => /\ Done(flags[chan[p]])
               /\ \A k \in 1..Len(idequeue) : idequeue[k] # chan[p]
               /\ Occurrences(served, chan[p]) = Occurrences(arrived, chan[p])]_vars
  /\ [](\A k \in 1..Len(idequeue) :
          \E p \in IdeProcs : ipc[p] = "sleep" /\ chan[p] = idequeue[k])
  /\ [][\A p \in IdeProcs :
          (ipc[p] = "run" /\ ~Done(flags[chan[p]]) /\ ipc'[p] # "run")
            => ipc'[p] = "sleep"]_vars

\* The interrupt handler completed a caller's request and woke it; the
\* caller has not yet re-tested, and other requests are still queued.
C19_Witness ==
  \E p \in IdeProcs :
    /\ ipc[p] = "run"
    /\ Done(flags[chan[p]])
    /\ \A k \in 1..Len(idequeue) : idequeue[k] # chan[p]
    /\ Len(idequeue) >= 2
    /\ Occurrences(served, chan[p]) = 2

\* C20: the metadata lock is free during commit I/O.  The committer does
\* not hold log.lock from the call of commit() until commit() has returned,
\* and takes it again only then.
C20_LockFreeDuringCommit ==
  /\ [](\A p \in Procs : pc[p] \in InCommit \cup {"fin"} => lock # p)
  /\ [][\A p \in Procs :
          (p \in Committers /\ lock # p /\ lock' = p) => pc[p] = "fin"]_vars

\* While the committer is in install_trans with one home write done,
\* another process holds log.lock in begin_op.
C20_Witness ==
  \E p, q \in Procs :
    /\ pc[q] = "install"
    /\ tail = 1
    /\ pc[p] = "begin_cs"
    /\ lock = p

\* C21, as stated: under fair scheduling every process sleeping in begin_op
\* is eventually admitted (unless the system has halted).
C21_EventuallyAdmitted ==
  \A p \in Procs :
    (pc[p] = "sleep") ~> (pc[p] = "op" \/ halt # "" \/ Overflowed)

\* C21, amended: no wakeup is lost.  A process sleeps in begin_op only while
\* a commit is running or an operation is outstanding; under fair
\* scheduling every sleeper is eventually woken and tests the admission
\* predicate again under log.lock; and a test that finds room admits.
C21_NoLostWakeup ==
  /\ [](\A p \in Procs :
          (pc[p] = "sleep" /\ halt = "" /\ ~Overflowed)
            => (committing = 1 \/ outstanding > 0))
  /\ \A p \in Procs :
       (pc[p] = "sleep") ~> (pc[p] = "begin_cs" \/ halt # "" \/ Overflowed)
  /\ [][\A p \in Procs :
          (pc[p] = "begin_cs" /\ ~MustWait /\ pc'[p] # "begin_cs")
            => pc'[p] = "op"]_vars

\* The committer has cleared the flag and woken a sleeper, which has not
\* yet taken log.lock again.
C21_Witness ==
  \E p \in Procs :
    /\ pc[p] = "begin"
    /\ committing = 0
    /\ outstanding = 0
    /\ lock = 0

\* C22: request liveness.  Every caller sleeping in iderw eventually
\* returns and every appended request is eventually completed (unless iderw
\* halted the system); a non-empty queue always has an issued command, and
\* the interrupt that leaves the queue non-empty issues the new head itself.
C22_RequestLiveness ==
  /\ \A p \in IdeProcs : (ipc[p] = "sleep") ~> (ipc[p] = "idle" \/ ihalt # "")
  /\ \A k \in 1..MaxReq :
       (Len(arrived) >= k) ~> (Len(served) >= k \/ ihalt # "")
  /\ [](idequeue # <<>> => (issued # 0 /\ Len(started) > Len(served)))
  /\ [][(Len(idequeue') < Len(idequeue) /\ idequeue' # <<>>)
          => /\ issued' = Head(idequeue')
             /\ started' = Append(started, issued')]_vars

\* Three requests are queued, two of them behind the one in flight, and all
\* three callers sleep.
C22_Witness ==
  /\ Len(idequeue) = 3
  /\ issued = Head(idequeue)
  /\ \A p \in IdeProcs : ipc[p] = "sleep"
  /\ Len(served) >= 1

\* C23: the re-entrant-commit halt of end_op is unreachable.  No end_op
\* holds log.lock with committing = 1, the system never halts with
\* "log.committing", and outstanding is never negative.
C23_EndOpPanicUnreachable ==
  /\ \A p \in Procs : pc[p] = "end_cs" => committing = 0
  /\ halt # "log.committing"
  /\ outstanding >= 0

\* In the second transaction one operation is in the locked part of end_op
\* while the other, also admitted, has not ended yet.
C23_Witness ==
  \E p, q \in Procs :
    /\ pc[p] = "end_cs"
    /\ pc[q] = "op"
    /\ outstanding = 2
    /\ epoch = 2
    /\ crashes = 0

\* C24: an empty commit is a no-op.  A commit() entered with header count 0
\* goes straight back to end_op; from its call until end_op has cleared
\* committing no step writes a log block, the header block or a home sector
\* or changes the in-memory header; end_op then clears the flag and leaves
\* no process asleep on the log.
C24_EmptyCommitNoOp ==
  /\ [][\A p \in Procs :
          (pc[p] = "commit" /\ lhn = 0 /\ pc'[p] # "commit" /\ crashes' = crashes)
            => pc'[p] = "fin"]_vars
  /\ [][((\E p \in Procs : pc[p] \in {"commit", "fin", "fin_cs"})
           /\ lhn = 0 /\ crashes' = crashes)
          => UNCHANGED <<home, logb, dhn, dhsector, lhn, lhsector>>]_vars
  /\ [][\A p \in Procs :
          (pc[p] = "fin_cs" /\ pc'[p] = "idle" /\ crashes' = crashes)
            => /\ committing' = 0
               /\ \A q \in Procs : pc'[q] # "sleep"]_vars

\* An empty commit has returned to end_op in the second transaction, with
\* the other process asleep in begin_op.
C24_Witness ==
  \E p, q \in Procs :
    /\ pc[p] = "fin"
    /\ pc[q] = "sleep"
    /\ glogged = {}
    /\ epoch = 2
    /\ crashes = 0
    /\ \E s \in Sectors : home[s] # 0

\* C25: pinning.  log_write returns with the block marked B_DIRTY; before
\* the commit starts, every logged block whose log_write has returned is
\* marked; the mark is removed (short of a crash) only by the step of
\* install_trans that writes the block's home sector with the cached
\* content; and the home sector of a marked block is written only by
\* install_trans in the commit of a transaction that logged it.
C25_Pinning ==
  /\ [][\A p \in Procs :
          (pc[p] \in {"lw_cmp", "lw_inc"} /\ pc'[p] = "op")
            => lwb[p] \in bdirty']_vars
  /\ []((\A p \in Procs : pc[p] \notin InCommit \cup {"fin", "fin_cs"})
          => \A s \in glogged :
               (\A p \in Procs : ~(pc[p] \in InLogWrite /\ lwb[p] = s))
                 => s \in bdirty)
  /\ [][\A s \in Sectors :
          (s \in bdirty /\ s \notin bdirty' /\ crashes' = crashes)
            => /\ \E p \in Procs : pc[p] = "install"
               /\ lhsector[tail + 1] = s
               /\ home'[s] = cache[s]]_vars
  /\ [][\A s \in Sectors :
          (s \in bdirty /\ home'[s] # home[s])
            => /\ \E p \in Procs : pc[p] = "install"
               /\ s \in glogged
               /\ home'[s] = cache[s]]_vars

\* install_trans has written the first of two logged blocks home: that one
\* is no longer marked, the other still is.
C25_Witness ==
  /\ \E p \in Procs : pc[p] = "install"
  /\ tail = 1
  /\ lhn = 2
  /\ lhsector[1] # lhsector[2]
  /\ lhsector[1] \notin bdirty
  /\ lhsector[2] \in bdirty
  /\ home[lhsector[2]] # cache[lhsector[2]]

\* C26: a spurious interrupt is harmless.  An ideintr that finds idequeue
\* empty changes neither the queue nor a block's flags or data, wakes no
\* process, issues no command, and returns with idelock released.
C26_SpuriousHarmless ==
  /\ [][(intr # intr')
          => UNCHANGED <<idequeue, flags, loaded, rderr, ipc, chan, issued,
                         status, arrived, started, served>>]_vars
  /\ [][(intr = "in" /\ intr' = "none") => idelock' = 0]_vars
  /\ [](intr = "none" => idelock = 0)

\* A spurious interrupt is being served while a woken caller of an earlier
\* request has not yet returned from iderw.
C26_Witness ==
  /\ intr = "in"
  /\ idequeue = <<>>
  /\ Len(served) >= 2
  /\ \E p \in IdeProcs : ipc[p] = "run"

====
